---- MODULE Spec2Model ----
(***************************************************************************)
(* Letter finalize/export state machine and HTML-to-DOCX conversion of     *)
(* backend/services/letter_service (logic.py, docx_generator.py).          *)
(*                                                                         *)
(* Strings that the code inspects character by character (titles, file     *)
(* names, text nodes) are sequences of one-character strings.  The HTML    *)
(* text handed to HTMLParser.feed is represented by the event sequence the *)
(* standard-library tokenizer calls the handlers with.                     *)
(***************************************************************************)
EXTENDS Integers, Sequences, FiniteSets, TLC

(***************************************************************************)
(* Bounds of the model                                                     *)
(***************************************************************************)
\* the clock runs over the days 1..MaxDay
MaxDay == 2
\* a title given to generate_filename is made of at most MaxChunks pieces
MaxChunks == 3
\* a parser is fed at most MaxEvents tags and text nodes
MaxEvents == 3

(***************************************************************************)
(* Characters                                                              *)
(***************************************************************************)
Lower == {"a","b","c","d","e","f","g","h","i","j","k","l","m",
          "n","o","p","q","r","s","t","u","v","w","x","y","z"}
Upper == {"A","B","C","D","E","F","G","H","I","J","K","L","M",
          "N","O","P","Q","R","S","T","U","V","W","X","Y","Z"}
DigitChars == <<"0","1","2","3","4","5","6","7","8","9">>
Digits == {DigitChars[i] : i \in 1..10}
\* the class \s of the regular expressions and of str.strip()
Whitespace == {" ", "\t", "\n", "\r"}

\* s[a..b], Python slice s[a-1:b]: an end past the length stops at the length
Slice(s, a, b) ==
    LET end == IF b > Len(s) THEN Len(s) ELSE b
    IN  IF end < a THEN <<>> ELSE SubSeq(s, a, end)

\* concatenation of a sequence of sequences (str.join with '')
RECURSIVE Flatten(_)
Flatten(ss) == IF ss = <<>> THEN <<>> ELSE Head(ss) \o Flatten(Tail(ss))

(***************************************************************************)
(* generate_filename                                                       *)
(***************************************************************************)
\* re.sub(r'[^a-zA-Z0-9\s_-]', '', s): the characters the pattern keeps
KeptChar(c) == c \in Lower \cup Upper \cup Digits \cup Whitespace \cup {"_", "-"}

RECURSIVE StripSpecial(_)
StripSpecial(s) ==
    IF s = <<>> THEN <<>>
    ELSE IF KeptChar(Head(s)) THEN <<Head(s)>> \o StripSpecial(Tail(s))
    ELSE StripSpecial(Tail(s))

\* a replacement of each whitespace character by its own "_"
RECURSIVE CollapseEachSpace(_, _)
CollapseEachSpace(s, inRun) ==
    IF s = <<>> THEN <<>>
    ELSE IF Head(s) \in Whitespace THEN <<"_">> \o CollapseEachSpace(Tail(s), TRUE)
    ELSE <<Head(s)>> \o CollapseEachSpace(Tail(s), FALSE)

\* re.sub(r'\s+', '_', s): every maximal run of whitespace becomes one "_"
RECURSIVE CollapseSpaces(_, _)
CollapseSpaces(s, inRun) ==
    IF s = <<>> THEN <<>>
    ELSE IF Head(s) \in Whitespace
         THEN (IF inRun THEN <<>> ELSE <<"_">>) \o CollapseSpaces(Tail(s), TRUE)
         ELSE <<Head(s)>> \o CollapseSpaces(Tail(s), FALSE)

SanitizeTitle(title) == CollapseSpaces(StripSpecial(title), FALSE)

\* zero-padded decimal of n on w digits
RECURSIVE Pad(_, _)
Pad(n, w) == IF w = 0 THEN <<>> ELSE Pad(n \div 10, w - 1) \o <<DigitChars[(n % 10) + 1]>>

\* date.strftime("%Y-%m-%d")
Strftime(date) == Pad(date.year, 4) \o <<"-">> \o Pad(date.month, 2) \o <<"-">> \o Pad(date.day, 2)

Prefix == <<"D","e","m","a","n","d","_","L","e","t","t","e","r","_">>
Extension == <<".","d","o","c","x">>

\* f"Demand_Letter_{title}_{date_str}.docx"
Compose(title, date_str) == Prefix \o title \o <<"_">> \o date_str \o Extension

MaxFilenameLen == 50
\* a title budget that forgets the date
MaxTitleLengthNoDate == 50 - 14 - 5

max_title_length == 50 - 14 - 11 - 5

\* a name cut to its first 50 characters, extension included
generate_filename_cut(letter_title, date) ==
    Slice(Compose(SanitizeTitle(letter_title), Strftime(date)), 1, MaxFilenameLen)

generate_filename(letter_title, date) ==
    LET date_str == Strftime(date)
        sanitized_title == SanitizeTitle(letter_title)
        filename == Compose(sanitized_title, date_str)
    IN  IF Len(filename) > MaxFilenameLen
        THEN IF max_title_length > 0
             THEN Compose(Slice(sanitized_title, 1, max_title_length), date_str)
             ELSE Prefix \o date_str \o Extension
        ELSE filename

(***************************************************************************)
(* HTMLToDocxParser                                                        *)
(***************************************************************************)
\* an event of the tokenizer: the handler it calls and the argument
StartTag(t) == [kind |-> "start", tag |-> t, data |-> <<>>]
EndTag(t)   == [kind |-> "end",   tag |-> t, data |-> <<>>]
Text(d)     == [kind |-> "data",  tag |-> "", data |-> d]

\* HTMLToDocxParser.__init__ on a new Document()
NewParser == [doc |-> <<>>, current_paragraph |-> 0,
              formatting_stack |-> <<>>, list_stack |-> <<>>]

\* a new paragraph that starts without any formatting
add_paragraph_plain(ps, style) ==
    [ps EXCEPT !.doc = Append(ps.doc, [style |-> style, runs |-> <<>>]),
               !.current_paragraph = Len(ps.doc) + 1,
               !.formatting_stack = <<>>]

\* doc.add_paragraph(style=...), the result made the current paragraph
add_paragraph(ps, style) ==
    [ps EXCEPT !.doc = Append(ps.doc, [style |-> style, runs |-> <<>>]),
               !.current_paragraph = Len(ps.doc) + 1]

_ensure_paragraph(ps) ==
    IF ps.current_paragraph = 0 THEN add_paragraph(ps, "Normal") ELSE ps

\* a run styled by the top of the stack only
_create_run_top(ps, text) ==
    LET q == _ensure_paragraph(ps)
        n == Len(q.formatting_stack)
        run == [text |-> text,
                bold |-> n > 0 /\ q.formatting_stack[n] = "bold",
                italic |-> n > 0 /\ q.formatting_stack[n] = "italic"]
    IN  [q EXCEPT !.doc[q.current_paragraph].runs = Append(@, run)]

\* the run of _create_run followed by run.add_text(text) of handle_data
_create_run(ps, text) ==
    LET q == _ensure_paragraph(ps)
        run == [text |-> text,
                bold |-> \E i \in 1..Len(q.formatting_stack) : q.formatting_stack[i] = "bold",
                italic |-> \E i \in 1..Len(q.formatting_stack) : q.formatting_stack[i] = "italic"]
    IN  [q EXCEPT !.doc[q.current_paragraph].runs = Append(@, run)]

handle_starttag(ps, tag) ==
    IF tag \in {"p", "h1", "h2", "h3"} THEN
        add_paragraph(ps, CASE tag = "h1" -> "Heading 1"
                            [] tag = "h2" -> "Heading 2"
                            [] tag = "h3" -> "Heading 3"
                            [] OTHER -> "Normal")
    ELSE IF tag \in {"strong", "b"} THEN
        [ps EXCEPT !.formatting_stack = Append(@, "bold")]
    ELSE IF tag \in {"em", "i"} THEN
        [ps EXCEPT !.formatting_stack = Append(@, "italic")]
    ELSE IF tag = "ul" THEN [ps EXCEPT !.list_stack = Append(@, "ul")]
    ELSE IF tag = "ol" THEN [ps EXCEPT !.list_stack = Append(@, "ol")]
    ELSE IF tag = "li" THEN
        IF ps.list_stack = <<>> THEN add_paragraph(ps, "Normal")
        ELSE add_paragraph(ps, IF ps.list_stack[Len(ps.list_stack)] = "ul"
                               THEN "List Bullet" ELSE "List Number")
    ELSE ps

\* stack.pop() whatever the top is
PopTop(stack, fmt) == Slice(stack, 1, Len(stack) - 1)

\* every entry fmt removed
PopAll(stack, fmt) == SelectSeq(stack, LAMBDA e : e # fmt)

\* stack.pop(idx) for idx the last position holding fmt; unchanged when absent
PopLast(stack, fmt) ==
    LET at == {i \in 1..Len(stack) : stack[i] = fmt}
    IN  IF at = {} THEN stack
        ELSE LET idx == CHOOSE i \in at : \A j \in at : j <= i
             IN  Slice(stack, 1, idx - 1) \o Slice(stack, idx + 1, Len(stack))

\* list_stack.pop() whenever a list is open
PopListAny(stack, kind) == Slice(stack, 1, Len(stack) - 1)

\* list_stack.pop() when the top is kind
PopList(stack, kind) ==
    IF stack # <<>> /\ stack[Len(stack)] = kind
    THEN Slice(stack, 1, Len(stack) - 1) ELSE stack

handle_endtag(ps, tag) ==
    IF tag \in {"p", "h1", "h2", "h3"} THEN [ps EXCEPT !.current_paragraph = 0]
    ELSE IF tag \in {"strong", "b"} THEN
        [ps EXCEPT !.formatting_stack = PopLast(@, "bold")]
    ELSE IF tag \in {"em", "i"} THEN
        [ps EXCEPT !.formatting_stack = PopLast(@, "italic")]
    ELSE IF tag = "ul" THEN [ps EXCEPT !.list_stack = PopList(@, "ul")]
    ELSE IF tag = "ol" THEN [ps EXCEPT !.list_stack = PopList(@, "ol")]
    ELSE IF tag = "li" THEN [ps EXCEPT !.current_paragraph = 0]
    ELSE ps

\* str.split('\n'): the pieces between the newlines, empty pieces kept
RECURSIVE SplitLines(_, _)
SplitLines(s, cur) ==
    IF s = <<>> THEN <<cur>>
    ELSE IF Head(s) = "\n" THEN <<cur>> \o SplitLines(Tail(s), <<>>)
    ELSE SplitLines(Tail(s), Append(cur, Head(s)))

\* str.strip()
RECURSIVE LStrip(_)
LStrip(s) == IF s # <<>> /\ Head(s) \in Whitespace THEN LStrip(Tail(s)) ELSE s
RECURSIVE RStrip(_)
RStrip(s) == IF s # <<>> /\ s[Len(s)] \in Whitespace
             THEN RStrip(Slice(s, 1, Len(s) - 1)) ELSE s
Strip(s) == RStrip(LStrip(s))

\* the loop of handle_data over the lines, text_parts its accumulator
RECURSIVE TextParts(_, _)
TextParts(lines, text_parts) ==
    IF lines = <<>> THEN text_parts
    ELSE LET stripped == Strip(Head(lines))
         IN  IF stripped # <<>> THEN TextParts(Tail(lines), Append(text_parts, stripped))
             ELSE IF text_parts # <<>> THEN TextParts(Tail(lines), Append(text_parts, <<" ">>))
             ELSE TextParts(Tail(lines), text_parts)

\* ''.join(text_parts).strip()
NormalizeText(data) == Strip(Flatten(TextParts(SplitLines(data, <<>>), <<>>)))

\* text outside any open paragraph is skipped
handle_data_in_block(ps, data) ==
    LET text == NormalizeText(data)
    IN  IF text = <<>> \/ ps.current_paragraph = 0 THEN ps ELSE _create_run(ps, text)

handle_data(ps, data) ==
    LET text == NormalizeText(data)
    IN  IF text = <<>> THEN ps ELSE _create_run(ps, text)

\* a tag the parser does not know ends the current paragraph
HandleEventUnknownEnds(ps, ev) ==
    IF ev.kind = "data" THEN handle_data(ps, ev.data)
    ELSE IF ev.tag \notin {"p", "h1", "h2", "h3", "li", "b", "strong", "i", "em", "ul", "ol"}
         THEN [ps EXCEPT !.current_paragraph = 0]
    ELSE IF ev.kind = "start" THEN handle_starttag(ps, ev.tag)
    ELSE handle_endtag(ps, ev.tag)

HandleEvent(ps, ev) ==
    CASE ev.kind = "start" -> handle_starttag(ps, ev.tag)
      [] ev.kind = "end"   -> handle_endtag(ps, ev.tag)
      [] OTHER             -> handle_data(ps, ev.data)

\* parser.feed: the handlers called in document order
RECURSIVE Feed(_, _)
Feed(ps, events) ==
    IF events = <<>> THEN ps ELSE Feed(HandleEvent(ps, Head(events)), Tail(events))

\* the two re.sub calls of html_to_docx: a script or style element with an
\* end tag is removed with everything between its tags
RECURSIVE DropElement(_, _)
DropElement(events, tag) ==
    IF events = <<>> THEN <<>>
    ELSE IF Head(events) = StartTag(tag)
              /\ \E j \in 2..Len(events) : events[j] = EndTag(tag)
         THEN LET j == CHOOSE k \in 2..Len(events) :
                           /\ events[k] = EndTag(tag)
                           /\ \A m \in 2..(k - 1) : events[m] # EndTag(tag)
              IN  DropElement(Slice(events, j + 1, Len(events)), tag)
         ELSE <<Head(events)>> \o DropElement(Tail(events), tag)

\* html_to_docx when nothing raises: the document the parser filled
html_to_docx(html_content) ==
    [paragraphs |->
        Feed(NewParser, DropElement(DropElement(html_content, "script"), "style")).doc]

(***************************************************************************)
(* The letters, the exports bucket and the requests in flight              *)
(***************************************************************************)
VARIABLES
    db,      \* generated_letters: letter id -> row, or NoLetter
    s3,      \* the exports bucket: the S3 keys that hold an object
    today,   \* the day datetime.utcnow() falls on
    call,    \* per request session: position in the handler and its locals
    naming,  \* a call of generate_filename: its arguments and its result
    parsing  \* an HTMLToDocxParser being fed: the events so far and its fields

vars == <<db, s3, today, call, naming, parsing>>
\* the letter service, and the two helpers it leaves alone
service == <<db, s3, today, call>>
helpers == <<naming, parsing>>

Firms     == {"firmA", "firmB"}
LetterIds == {"L1", "L2"}
Sessions  == {"s1", "s2"}

TitleCase  == <<"C","a","s","e"," ","#","1">>
TitleClaim == <<"T","o",":"," ","A","c","m","e">>
Titles     == {TitleCase, TitleClaim}

\* <h1>Title</h1><p>Body <strong>bold</strong></p>
ContentHeading ==
    << StartTag("h1"), Text(<<"T","i","t","l","e">>), EndTag("h1"),
       StartTag("p"), Text(<<"B","o","d","y"," ">>),
       StartTag("strong"), Text(<<"b","o","l","d">>), EndTag("strong"), EndTag("p") >>
\* <ul><li>a</li></ul></b>x<script>s</script>
ContentList ==
    << StartTag("ul"), StartTag("li"), Text(<<"a">>), EndTag("li"), EndTag("ul"),
       EndTag("b"), Text(<<"x">>),
       StartTag("script"), Text(<<"s">>), EndTag("script") >>
Contents == {ContentHeading, ContentList}

NoLetter == [absent |-> TRUE]
NoKey    == <<>>
NoDoc    == [absent |-> TRUE]
NoUrl    == [absent |-> TRUE]

\* the datetime of a day of the clock
DateOf(day) == [year |-> 2024, month |-> 1, day |-> 14 + day]

\* GeneratedLetter(...) of generate_letter with the column defaults
NewLetter(firm_id, title, content, now) ==
    [firm_id |-> firm_id, title |-> title, content |-> content,
     status |-> "draft", docx_s3_key |-> NoKey, updated_at |-> now]

\* one folder for the letters of all firms
S3KeyShared(firm_id, filename) == <<"shared", "letters", filename>>

\* f"{firm_id}/letters/{filename}"
S3Key(firm_id, filename) == <<firm_id, "letters", filename>>

\* generate_presigned_url(..., expiration=3600, http_method="GET")
PresignedUrl(s3_key) == [key |-> s3_key, expiration |-> 3600, method |-> "GET"]

\* no generate_filename call, no parser
NoNaming == [pc |-> "none", letter_title |-> <<>>, date |-> DateOf(1), filename |-> <<>>]
NoParsing == [fed |-> <<>>, parser |-> NewParser]

IdleCall ==
    [pc |-> "idle", op |-> "none", letter_id |-> "none", firm_id |-> "none",
     before |-> NoLetter, store_before |-> {}, letter |-> NoLetter,
     old_s3_key |-> NoKey, new_s3_key |-> NoKey, doc |-> NoDoc,
     result |-> "none", docx_url |-> NoUrl, log |-> <<>>]

\* a step the handler has made: the conversion (Convert), a call on the store
\* (Put, Delete, Presign) or db.commit() (Save), with the key it concerns and
\* whether it succeeded
Entry(op, key, ok) == [op |-> op, key |-> key, ok |-> ok]

\* upload_fileobj / delete_object on the bucket; an upload creates or
\* overwrites the object of the key, the bytes themselves are not kept
S3Put(bucket, key, doc) == bucket \cup {key}
S3Delete(bucket, key) == bucket \ {key}

\* a handler that skips the ownership check
OwnedByAnyone(letter, firm_id) == TRUE

\* `if letter.firm_id != firm_id: raise ForbiddenException`
OwnedBy(letter, firm_id) == letter.firm_id = firm_id

\* cleanup that does not compare the two keys
NeedsCleanupAlways(old_s3_key, new_s3_key) == old_s3_key # NoKey

\* `if old_s3_key and old_s3_key != new_s3_key`
NeedsCleanup(old_s3_key, new_s3_key) ==
    old_s3_key # NoKey /\ old_s3_key # new_s3_key

\* the key the handlers compute for the loaded letter
NewS3Key(letter, firm_id) ==
    S3Key(firm_id, generate_filename(letter.title, DateOf(letter.updated_at)))

\* finalize that forgets to set the status
FinalizeAssignKeepStatus(letter, new_s3_key) ==
    [letter EXCEPT !.docx_s3_key = new_s3_key]

\* finalize that marks the letter created and forgets the key
FinalizeAssignStatusOnly(letter, new_s3_key) ==
    [letter EXCEPT !.status = "created"]

\* the attribute assignments before db.commit()
FinalizeAssign(letter, new_s3_key) ==
    [letter EXCEPT !.status = "created", !.docx_s3_key = new_s3_key]

\* export that also marks the letter created
ExportAssignFinalizes(letter, new_s3_key) ==
    [letter EXCEPT !.status = "created", !.docx_s3_key = new_s3_key]

\* `letter.docx_s3_key = new_s3_key` of export_letter, status left alone
ExportAssign(letter, new_s3_key) ==
    [letter EXCEPT !.docx_s3_key = new_s3_key]
Assigned(op, letter, new_s3_key) ==
    IF op = "finalize" THEN FinalizeAssign(letter, new_s3_key)
    ELSE ExportAssign(letter, new_s3_key)

Columns == {"title", "content", "status", "docx_s3_key"}

\* a commit that writes every column of the object back
FlushAllColumns(row, loaded, assigned, now) ==
    [f \in DOMAIN row |-> IF f = "updated_at" THEN now ELSE assigned[f]]

\* the UPDATE a commit flushes: the attributes whose value differs from the
\* loaded one, and updated_at = utcnow() (onupdate) when there is any
Flush(row, loaded, assigned, now) ==
    LET dirty == {f \in Columns : assigned[f] # loaded[f]}
    IN  IF dirty = {} THEN row
        ELSE [f \in DOMAIN row |->
                 IF f \in dirty THEN assigned[f]
                 ELSE IF f = "updated_at" THEN now
                 ELSE row[f]]

\* finalize that deletes the old file before uploading the new one
FinalizeOrderDeleteFirst == <<"convert", "cleanup", "upload", "commit", "get", "done">>
\* export that commits before a successful upload
ExportOrderSaveFirst == <<"convert", "commit", "upload", "cleanup", "presign", "done">>
\* export that cleans up before it commits, as finalize does
ExportOrderAsFinalize == <<"convert", "upload", "cleanup", "commit", "presign", "done">>

\* export that keeps the stored file and only signs a URL for it
ExportOrderNoUpload == <<"convert", "commit", "cleanup", "presign", "done">>

\* the order of the steps of finalize_letter and of export_letter
FinalizeOrder == <<"convert", "upload", "cleanup", "commit", "get", "done">>
ExportOrder   == <<"convert", "upload", "commit", "cleanup", "presign", "done">>
StepOrder(op) == IF op = "finalize" THEN FinalizeOrder ELSE ExportOrder
NextStep(op, pc) ==
    LET order == StepOrder(op)
        i == CHOOSE k \in 1..Len(order) : order[k] = pc
    IN  order[i + 1]

\* the effects of a step on the locals of the handler
Logged(rec, entry) == [rec EXCEPT !.log = Append(@, entry)]
Raised(rec, error) == [rec EXCEPT !.pc = "done", !.result = error]
Advanced(rec)      == [rec EXCEPT !.pc = NextStep(rec.op, rec.pc)]

\* the handler's first lines: query the letter, check it exists and belongs
\* to the firm, remember the old key and compute the new one
Loaded(op, letter_id, firm_id, letter, bucket) ==
    LET rec == [IdleCall EXCEPT !.op = op, !.letter_id = letter_id,
                                !.firm_id = firm_id, !.before = letter,
                                !.store_before = bucket]
    IN  IF letter = NoLetter THEN Raised(rec, "NotFound")
        ELSE IF ~OwnedBy(letter, firm_id) THEN Raised(rec, "Forbidden")
        ELSE [rec EXCEPT !.pc = StepOrder(op)[1], !.letter = letter,
                         !.old_s3_key = letter.docx_s3_key,
                         !.new_s3_key = NewS3Key(letter, firm_id)]

\* cleanup whose failure is raised to the caller
CleanupFailedRaises(rec) ==
    Raised(Logged(rec, Entry("Delete", rec.old_s3_key, FALSE)), "ArtifactStoreFailed")

\* `except Exception` around delete_file: logged, the handler goes on
CleanupFailed(rec) == Advanced(Logged(rec, Entry("Delete", rec.old_s3_key, FALSE)))

\* an upload failure that is only logged
UploadFailedIgnored(rec) == Advanced(Logged(rec, Entry("Put", rec.new_s3_key, FALSE)))

\* `except Exception` around save_docx_to_s3: S3UploadException
UploadFailed(rec) ==
    Raised(Logged(rec, Entry("Put", rec.new_s3_key, FALSE)), "ArtifactStoreFailed")

\* a conversion failure that is only logged
ConvertFailedIgnored(rec) == Advanced(Logged(rec, Entry("Convert", NoKey, FALSE)))

\* `except Exception` around html_to_docx: ValueError
ConvertFailed(rec) ==
    Raised(Logged(rec, Entry("Convert", NoKey, FALSE)), "ConversionFailed")

\* get_letter_by_id: `except Exception` around generate_presigned_url leaves
\* docx_url None and the response is still returned
UrlFailedInGet(rec, s3_key) ==
    [Logged(rec, Entry("Presign", s3_key, FALSE)) EXCEPT
        !.pc = "done", !.result = "ok", !.docx_url = NoUrl]

\* export_letter: `except Exception` around generate_presigned_url
UrlFailedInExport(rec) ==
    Raised(Logged(rec, Entry("Presign", rec.new_s3_key, FALSE)), "ArtifactStoreFailed")

(***************************************************************************)
(* finalize_letter and export_letter, step by step                         *)
(***************************************************************************)
FinalizeBegin(c, letter_id, firm_id) ==
    /\ call[c].pc = "idle"
    /\ call' = [call EXCEPT ![c] = Loaded("finalize", letter_id, firm_id, db[letter_id], s3)]
    /\ UNCHANGED <<db, s3, today>>

ExportBegin(c, letter_id, firm_id) ==
    /\ call[c].pc = "idle"
    /\ call' = [call EXCEPT ![c] = Loaded("export", letter_id, firm_id, db[letter_id], s3)]
    /\ UNCHANGED <<db, s3, today>>

Convert(c) ==
    /\ call[c].pc = "convert"
    /\ \/ call' = [call EXCEPT ![c] =
                      Advanced([Logged(call[c], Entry("Convert", NoKey, TRUE)) EXCEPT
                                   !.doc = html_to_docx(call[c].letter.content)])]
       \/ call' = [call EXCEPT ![c] = ConvertFailed(call[c])]
    /\ UNCHANGED <<db, s3, today>>

Upload(c) ==
    /\ call[c].pc = "upload"
    /\ \/ /\ s3' = S3Put(s3, call[c].new_s3_key, call[c].doc)
          /\ call' = [call EXCEPT ![c] =
                         Advanced(Logged(call[c], Entry("Put", call[c].new_s3_key, TRUE)))]
       \/ /\ call' = [call EXCEPT ![c] = UploadFailed(call[c])]
          /\ UNCHANGED s3
    /\ UNCHANGED <<db, today>>

Cleanup(c) ==
    /\ call[c].pc = "cleanup"
    /\ IF NeedsCleanup(call[c].old_s3_key, call[c].new_s3_key)
       THEN \/ /\ s3' = S3Delete(s3, call[c].old_s3_key)
               /\ call' = [call EXCEPT ![c] =
                              Advanced(Logged(call[c], Entry("Delete", call[c].old_s3_key, TRUE)))]
            \/ /\ call' = [call EXCEPT ![c] = CleanupFailed(call[c])]
               /\ UNCHANGED s3
       ELSE /\ call' = [call EXCEPT ![c] = Advanced(call[c])]
            /\ UNCHANGED s3
    /\ UNCHANGED <<db, today>>

Commit(c) ==
    /\ call[c].pc = "commit"
    /\ LET rec == call[c]
           id == rec.letter_id
           assigned == Assigned(rec.op, rec.letter, rec.new_s3_key)
       IN  \/ /\ db[id] # NoLetter
              /\ db' = [db EXCEPT ![id] = Flush(db[id], rec.letter, assigned, today)]
              /\ call' = [call EXCEPT ![c] =
                             Advanced([Logged(rec, Entry("Save", rec.new_s3_key, TRUE))
                                          EXCEPT !.letter = db'[id]])]
           \/ /\ call' = [call EXCEPT ![c] =
                             Raised(Logged(rec, Entry("Save", rec.new_s3_key, FALSE)),
                                    "PersistenceError")]
              /\ UNCHANGED db
    /\ UNCHANGED <<s3, today>>

\* `return get_letter_by_id(...)` at the end of finalize_letter
GetLetter(c) ==
    /\ call[c].pc = "get"
    /\ LET rec == call[c]
           letter == db[rec.letter_id]
       IN  IF letter = NoLetter THEN call' = [call EXCEPT ![c] = Raised(rec, "NotFound")]
           ELSE IF ~OwnedBy(letter, rec.firm_id)
                THEN call' = [call EXCEPT ![c] = Raised(rec, "Forbidden")]
           ELSE IF letter.docx_s3_key = NoKey
                THEN call' = [call EXCEPT ![c] =
                                 [rec EXCEPT !.pc = "done", !.result = "ok", !.letter = letter]]
           ELSE \/ call' = [call EXCEPT ![c] =
                               [Logged(rec, Entry("Presign", letter.docx_s3_key, TRUE)) EXCEPT
                                   !.pc = "done", !.result = "ok", !.letter = letter,
                                   !.docx_url = PresignedUrl(letter.docx_s3_key)]]
                \/ call' = [call EXCEPT ![c] =
                               UrlFailedInGet([rec EXCEPT !.letter = letter], letter.docx_s3_key)]
    /\ UNCHANGED <<db, s3, today>>

\* the presigned URL export_letter returns
Presign(c) ==
    /\ call[c].pc = "presign"
    /\ \/ call' = [call EXCEPT ![c] =
                      [Logged(call[c], Entry("Presign", call[c].new_s3_key, TRUE)) EXCEPT
                          !.pc = "done", !.result = "ok",
                          !.docx_url = PresignedUrl(call[c].new_s3_key)]]
       \/ call' = [call EXCEPT ![c] = UrlFailedInExport(call[c])]
    /\ UNCHANGED <<db, s3, today>>

\* the endpoint answers and the session is closed
Return(c) ==
    /\ call[c].pc = "done"
    /\ call' = [call EXCEPT ![c] = IdleCall]
    /\ UNCHANGED <<db, s3, today>>

(***************************************************************************)
(* update_letter and the clock                                             *)
(***************************************************************************)
\* an update that sends an edited letter back to draft
UpdateLetterToDraft(letter_id, firm_id, setTitle, title, setContent, content) ==
    /\ db[letter_id] # NoLetter
    /\ OwnedBy(db[letter_id], firm_id)
    /\ setTitle \/ setContent
    /\ db' = [db EXCEPT ![letter_id] =
                 [@ EXCEPT !.status = "draft",
                           !.title = IF setTitle THEN title ELSE @,
                           !.content = IF setContent THEN content ELSE @]]
    /\ UNCHANGED <<s3, today, call>>

\* title and content are Optional: setTitle/setContent say which are given
UpdateLetter(letter_id, firm_id, setTitle, title, setContent, content) ==
    /\ db[letter_id] # NoLetter
    /\ OwnedBy(db[letter_id], firm_id)
    /\ setTitle \/ setContent
    /\ LET letter == db[letter_id]
           assigned == [letter EXCEPT !.title = IF setTitle THEN title ELSE @,
                                      !.content = IF setContent THEN content ELSE @]
       IN  db' = [db EXCEPT ![letter_id] = Flush(letter, letter, assigned, today)]
    /\ UNCHANGED <<s3, today, call>>

Tick ==
    /\ today < MaxDay
    /\ today' = today + 1
    /\ UNCHANGED <<db, s3, call>>

(***************************************************************************)
(* Requests served one at a time, on a letter generated as a draft         *)
(***************************************************************************)
Idle == \A c \in Sessions : call[c].pc = "idle"

Init ==
    /\ today = 1
    /\ \E title \in Titles, content \in Contents :
          db = [id \in LetterIds |->
                   IF id = "L1" THEN NewLetter("firmA", title, content, 1) ELSE NoLetter]
    /\ s3 = {}
    /\ call = [c \in Sessions |-> IdleCall]
    /\ naming = NoNaming
    /\ parsing = NoParsing

Next ==
    \/ \E id \in LetterIds, firm \in Firms :
          Idle /\ FinalizeBegin("s1", id, firm) /\ UNCHANGED helpers
    \/ \E id \in LetterIds, firm \in Firms :
          Idle /\ ExportBegin("s1", id, firm) /\ UNCHANGED helpers
    \/ Convert("s1") /\ UNCHANGED helpers
    \/ Upload("s1") /\ UNCHANGED helpers
    \/ Cleanup("s1") /\ UNCHANGED helpers
    \/ Commit("s1") /\ UNCHANGED helpers
    \/ GetLetter("s1") /\ UNCHANGED helpers
    \/ Presign("s1") /\ UNCHANGED helpers
    \/ Return("s1") /\ UNCHANGED helpers
    \/ \E id \in LetterIds, firm \in Firms, setTitle \in BOOLEAN, title \in Titles,
          setContent \in BOOLEAN, content \in Contents :
          Idle /\ UpdateLetter(id, firm, setTitle, title, setContent, content)
               /\ UNCHANGED helpers
    \/ Tick /\ UNCHANGED helpers

Spec == Init /\ [][Next]_vars

(***************************************************************************)
(* Properties of finalize_letter and export_letter                         *)
(***************************************************************************)
\* the entries of a call's log for one kind of step
Steps(rec, op) == SelectSeq(rec.log, LAMBDA e : e.op = op)
HasOk(rec, op)     == \E i \in 1..Len(rec.log) : rec.log[i].op = op /\ rec.log[i].ok
HasFailed(rec, op) == \E i \in 1..Len(rec.log) : rec.log[i].op = op /\ ~rec.log[i].ok

\* the key "{tenant_id}/letters/{filename}" of the letter as it was loaded
KeyBefore(rec) ==
    <<rec.before.firm_id, "letters",
      generate_filename(rec.before.title, DateOf(rec.before.updated_at))>>

\* the persisted record is what it was when the call started
RecordUnchanged(rec) == db[rec.letter_id] = rec.before
StoreUnchanged(rec)  == s3 = rec.store_before

Ended(rec)     == rec.pc = "done"
Succeeded(rec) == rec.pc = "done" /\ rec.result = "ok"

\* "Demand_Letter_Case_1_2024-01-15.docx"
FileCaseDay1 ==
    <<"D","e","m","a","n","d","_","L","e","t","t","e","r","_","C","a","s","e","_","1","_",
      "2","0","2","4","-","0","1","-","1","5",".","d","o","c","x">>

\* C1: a successful Finalize of a letter without a storage key leaves the
\* status created and the key "{tenant_id}/letters/{filename}", the filename
\* generated from the title and updated_at the letter had, after exactly one
\* Put, under that key, and no Delete.
C1_FinalizeFirstTime ==
    \A c \in Sessions :
        LET rec == call[c] IN
        (Succeeded(rec) /\ rec.op = "finalize" /\ rec.before.docx_s3_key = NoKey) =>
            /\ db[rec.letter_id].status = "created"
            /\ db[rec.letter_id].docx_s3_key = KeyBefore(rec)
            /\ Steps(rec, "Put") = <<Entry("Put", KeyBefore(rec), TRUE)>>
            /\ Steps(rec, "Delete") = <<>>
            /\ KeyBefore(rec) \in s3

C1_Witness ==
    LET rec == call["s1"] IN
    /\ Succeeded(rec) /\ rec.op = "finalize" /\ rec.before.docx_s3_key = NoKey
    /\ rec.before.status = "draft"
    /\ db["L1"].status = "created"
    /\ db["L1"].docx_s3_key = <<"firmA", "letters", FileCaseDay1>>

\* C2: Finalize or Export asked by a tenant that does not own the letter ends
\* with Forbidden, having made no Put, no Delete and no save; record and
\* store are as before the call.
C2_ForbiddenTouchesNothing ==
    \A c \in Sessions :
        LET rec == call[c] IN
        (rec.op # "none" /\ rec.before # NoLetter /\ rec.before.firm_id # rec.firm_id) =>
            /\ Ended(rec) /\ rec.result = "Forbidden"
            /\ rec.log = <<>>
            /\ RecordUnchanged(rec) /\ StoreUnchanged(rec)

C2_Witness ==
    LET rec == call["s1"] IN
    /\ Ended(rec) /\ rec.result = "Forbidden" /\ rec.op = "export"
    /\ rec.firm_id = "firmB" /\ rec.before.firm_id = "firmA"
    /\ rec.before.docx_s3_key # NoKey /\ rec.before.docx_s3_key \in s3

PrimaryErrors == {"NotFound", "Forbidden", "ConversionFailed", "ArtifactStoreFailed"}

\* the call ended in export_letter's handler for a failed presigned URL
UrlErrorOfExport(rec) ==
    rec.op = "export" /\ rec.result = "ArtifactStoreFailed" /\ HasFailed(rec, "Presign")

\* C3 as stated: whenever Finalize or Export ends with one of the four primary
\* errors the persisted record is what it was before the call.
C3_ErrorLeavesRecord ==
    \A c \in Sessions :
        LET rec == call[c] IN
        (Ended(rec) /\ rec.result \in PrimaryErrors) => RecordUnchanged(rec)

\* C3 amended: whenever Finalize or Export ends with NotFound, Forbidden,
\* ConversionFailed or the ArtifactStoreFailed of a failed upload, the
\* persisted record is what it was before the call; the ArtifactStoreFailed of
\* a failed presigned URL is raised by Export alone, after the commit: the
\* record then holds new_key and an otherwise unchanged status.
C3_ErrorBeforeCommitLeavesRecord ==
    \A c \in Sessions :
        LET rec == call[c] IN
        (Ended(rec) /\ rec.result \in PrimaryErrors) =>
            IF UrlErrorOfExport(rec)
            THEN /\ HasOk(rec, "Save")
                 /\ db[rec.letter_id].docx_s3_key = rec.new_s3_key
                 /\ db[rec.letter_id].status = rec.before.status
            ELSE /\ RecordUnchanged(rec)
                 /\ ~HasOk(rec, "Save")

C3_Witness ==
    LET rec == call["s1"] IN
    /\ Ended(rec) /\ rec.op = "export" /\ rec.result = "ArtifactStoreFailed"
    /\ HasFailed(rec, "Put")
    /\ rec.before.docx_s3_key # NoKey /\ rec.before.docx_s3_key # rec.new_s3_key
    /\ RecordUnchanged(rec)

\* C4: when the upload fails the call ends with ArtifactStoreFailed and
\* nothing after the upload happens: no Delete, no save, record and store as
\* before the call.
C4_UploadFailureStops ==
    \A c \in Sessions :
        LET rec == call[c] IN
        HasFailed(rec, "Put") =>
            /\ Ended(rec) /\ rec.result = "ArtifactStoreFailed"
            /\ rec.log = <<Entry("Convert", NoKey, TRUE), Entry("Put", rec.new_s3_key, FALSE)>>
            /\ RecordUnchanged(rec) /\ StoreUnchanged(rec)

C4_Witness ==
    LET rec == call["s1"] IN
    /\ HasFailed(rec, "Put") /\ rec.op = "finalize"
    /\ rec.old_s3_key # NoKey /\ rec.old_s3_key # rec.new_s3_key
    /\ rec.old_s3_key \in s3

\* C5: when the conversion fails the call ends with ConversionFailed, having
\* made no Put, no Delete and no save; record and store are as before.
C5_ConversionFailureStops ==
    \A c \in Sessions :
        LET rec == call[c] IN
        (HasFailed(rec, "Convert") \/ rec.result = "ConversionFailed") =>
            /\ Ended(rec) /\ rec.result = "ConversionFailed"
            /\ rec.log = <<Entry("Convert", NoKey, FALSE)>>
            /\ RecordUnchanged(rec) /\ StoreUnchanged(rec)

C5_Witness ==
    LET rec == call["s1"] IN
    /\ Ended(rec) /\ rec.result = "ConversionFailed" /\ rec.op = "export"
    /\ rec.before.docx_s3_key # NoKey

\* C6: Finalize never completes normally without a presigned URL for new_key:
\* it returns the letter with the URL or fails with ArtifactStoreFailed.
C6_FinalizeReturnsUrl ==
    \A c \in Sessions :
        LET rec == call[c] IN
        (Succeeded(rec) /\ rec.op = "finalize") =>
            rec.docx_url = [key |-> rec.new_s3_key, expiration |-> 3600, method |-> "GET"]

\* the cleanup condition on the letter as it was loaded
KeyChanged(rec) ==
    rec.before.docx_s3_key # NoKey /\ rec.before.docx_s3_key # KeyBefore(rec)

\* the call is past its cleanup step: the upload succeeded (and, in Export,
\* the commit before the cleanup) and the cleanup has been decided
PastCleanup(rec) ==
    /\ HasOk(rec, "Put")
    /\ rec.pc # "cleanup"
    /\ rec.op = "export" => HasOk(rec, "Save")

\* C7: in Finalize and in Export a Delete is issued if and only if the key the
\* letter had before the call is non-empty and differs from the new key; it
\* is then one Delete, of the old key, and new_key is never deleted.
C7_DeleteIffKeyChanged ==
    \A c \in Sessions :
        LET rec == call[c]
            deletes == Steps(rec, "Delete")
        IN  rec.before # NoLetter =>
            /\ Len(deletes) <= 1
            /\ \A i \in 1..Len(deletes) :
                  /\ deletes[i].key = rec.before.docx_s3_key
                  /\ deletes[i].key # KeyBefore(rec)
            /\ deletes # <<>> => KeyChanged(rec)
            /\ PastCleanup(rec) => (deletes # <<>> <=> KeyChanged(rec))
            /\ PastCleanup(rec) => KeyBefore(rec) \in s3

C7_Witness ==
    /\ \E c \in Sessions :
          LET rec == call[c] IN
          /\ Succeeded(rec) /\ rec.op = "export"
          /\ Steps(rec, "Delete") = <<Entry("Delete", rec.before.docx_s3_key, TRUE)>>
          /\ rec.before.docx_s3_key \notin s3
          /\ rec.new_s3_key \in s3

\* a Finalize that re-uses the key: the upload overwrites and nothing is deleted
C7_WitnessSameKey ==
    \E c \in Sessions :
        LET rec == call[c] IN
        /\ Succeeded(rec) /\ rec.op = "finalize"
        /\ rec.before.docx_s3_key = rec.new_s3_key
        /\ Steps(rec, "Delete") = <<>>

\* C8: a failed Delete of the stale artifact is not propagated: the call goes
\* on, the record is updated to new_key (status created for Finalize) and the
\* caller gets a success result, unless a later step of its own fails.
C8_CleanupFailureNotPropagated ==
    \A c \in Sessions :
        LET rec == call[c] IN
        HasFailed(rec, "Delete") =>
            /\ rec.log[Len(rec.log)].op = "Delete" => ~Ended(rec)
            /\ Ended(rec) =>
                  \/ /\ rec.result = "ok"
                     /\ db[rec.letter_id].docx_s3_key = rec.new_s3_key
                     /\ rec.op = "finalize" => db[rec.letter_id].status = "created"
                     /\ rec.op = "export" => rec.docx_url = PresignedUrl(rec.new_s3_key)
                  \/ /\ rec.op = "finalize" /\ HasFailed(rec, "Save")
                     /\ rec.result = "PersistenceError"
                  \/ /\ rec.op = "export" /\ HasFailed(rec, "Presign")
                     /\ rec.result = "ArtifactStoreFailed"
                     /\ db[rec.letter_id].docx_s3_key = rec.new_s3_key

C8_Witness ==
    \E c \in Sessions :
        LET rec == call[c] IN
        /\ Succeeded(rec) /\ rec.op = "finalize" /\ HasFailed(rec, "Delete")
        /\ db[rec.letter_id].status = "created"
        /\ db[rec.letter_id].docx_s3_key = rec.new_s3_key
        /\ rec.old_s3_key \in s3

\* C9: within a call the Put of the new artifact has succeeded before the
\* Delete of the old one is issued, and if the old artifact was in the store
\* when the call started, the store holds the old or the new artifact at
\* every point of the call.
C9_PutBeforeDelete ==
    \A c \in Sessions :
        LET rec == call[c] IN
        /\ \A i \in 1..Len(rec.log) :
              rec.log[i].op = "Delete" =>
                  \E j \in 1..(i - 1) : rec.log[j] = Entry("Put", rec.new_s3_key, TRUE)
        /\ (rec.op # "none" /\ rec.old_s3_key # NoKey
               /\ rec.old_s3_key \in rec.store_before) =>
              (rec.old_s3_key \in s3 \/ rec.new_s3_key \in s3)

C9_Witness ==
    \E c \in Sessions :
        LET rec == call[c] IN
        /\ rec.op = "finalize" /\ rec.pc = "commit"
        /\ rec.old_s3_key \in rec.store_before
        /\ rec.log[Len(rec.log)] = Entry("Delete", rec.old_s3_key, TRUE)
        /\ rec.old_s3_key \notin s3
        /\ rec.new_s3_key \in s3

\* the place of a step in the order load, convert, upload, delete, persist
RankDeleteFirst(op) ==
    CASE op = "Convert" -> 1 [] op = "Put" -> 2 [] op = "Delete" -> 3
      [] op = "Save" -> 4 [] OTHER -> 5
\* the place of a step in the order load, convert, upload, persist, delete
RankSaveFirst(op) ==
    CASE op = "Convert" -> 1 [] op = "Put" -> 2 [] op = "Save" -> 3
      [] op = "Delete" -> 4 [] OTHER -> 5

\* C10 as stated: Finalize and Export both run convert, upload, optional
\* delete of the old key, persist, in that order.
C10_DeleteBeforePersist ==
    \A c \in Sessions :
        LET rec == call[c] IN
        \A i, j \in 1..Len(rec.log) :
            i < j => RankDeleteFirst(rec.log[i].op) < RankDeleteFirst(rec.log[j].op)

\* C10 amended: Finalize runs load, convert, upload, optional delete of the
\* old key, persist; Export runs load, convert, upload, persist, optional
\* delete of the old key: in Export the record is persisted with new_key
\* before the old key is deleted.
C10_StepOrder ==
    \A c \in Sessions :
        LET rec == call[c] IN
        \A i, j \in 1..Len(rec.log) :
            i < j => IF rec.op = "finalize"
                     THEN RankDeleteFirst(rec.log[i].op) < RankDeleteFirst(rec.log[j].op)
                     ELSE RankSaveFirst(rec.log[i].op) < RankSaveFirst(rec.log[j].op)

C10_Witness ==
    /\ call["s1"].op = "export"
    /\ Len(call["s1"].log) = 3
    /\ call["s1"].log[2].op = "Put"
    /\ call["s1"].log[3] = Entry("Save", call["s1"].new_s3_key, TRUE)
    /\ call["s1"].pc = "cleanup"
    /\ NeedsCleanup(call["s1"].old_s3_key, call["s1"].new_s3_key)
    /\ call["s1"].old_s3_key \in s3
    /\ db["L1"].docx_s3_key = call["s1"].new_s3_key

\* C11: Export never changes the status: after a successful Export a draft
\* letter is still draft and a created letter still created, and the record
\* holds new_key.
C11_ExportKeepsStatus ==
    \A c \in Sessions :
        LET rec == call[c] IN
        (rec.op = "export" /\ rec.before # NoLetter) =>
            /\ db[rec.letter_id].status = rec.before.status
            /\ Succeeded(rec) => db[rec.letter_id].docx_s3_key = KeyBefore(rec)

C11_Witness ==
    LET rec == call["s1"] IN
    /\ Succeeded(rec) /\ rec.op = "export"
    /\ rec.before.status = "draft" /\ rec.before.docx_s3_key = NoKey
    /\ db["L1"].status = "draft"
    /\ db["L1"].docx_s3_key = <<"firmA", "letters", FileCaseDay1>>

Accepted == {"none", "ok", "ConversionFailed", "ArtifactStoreFailed", "PersistenceError"}

\* C13: under any sequence of Finalize, Export and update a status that is
\* created stays created, and Finalize and Export of an existing letter by its
\* owner are accepted whether it is draft or created.
C13_StatusNeverReverts ==
    /\ [](\A c \in Sessions :
            (call[c].op # "none" /\ call[c].before # NoLetter
                /\ call[c].before.firm_id = call[c].firm_id) =>
                call[c].result \in Accepted)
    /\ [][\A id \in LetterIds :
            (db[id] # NoLetter /\ db[id].status = "created") =>
                (db'[id] # NoLetter /\ db'[id].status = "created")]_vars

\* a created letter, edited since, finalized again
C13_Witness ==
    LET rec == call["s1"] IN
    /\ Succeeded(rec) /\ rec.op = "finalize"
    /\ rec.before.status = "created"
    /\ rec.before.docx_s3_key # rec.new_s3_key
    /\ db["L1"].status = "created"

(***************************************************************************)
(* Two requests on the same letter at the same time, within one day, with  *)
(* title edits in between                                                  *)
(***************************************************************************)
\* the letter after an export on day 1: the file is stored, status unchanged
ExportedLetter(firm_id, title, content) ==
    LET letter == NewLetter(firm_id, title, content, 1)
    IN  ExportAssign(letter, NewS3Key(letter, firm_id))

\* a request arrives while no other request has been answered yet, so that
\* any two requests of a behaviour overlap
Overlapping(c) == \A d \in Sessions \ {c} : call[d].pc # "done"

InitConc ==
    /\ today = 1
    /\ \E letter \in {NewLetter("firmA", TitleCase, ContentHeading, 1),
                       ExportedLetter("firmA", TitleCase, ContentHeading)} :
          /\ db = [id \in LetterIds |-> IF id = "L1" THEN letter ELSE NoLetter]
          /\ s3 = IF letter.docx_s3_key = NoKey THEN {} ELSE {letter.docx_s3_key}
    /\ call = [c \in Sessions |-> IdleCall]
    /\ naming = NoNaming
    /\ parsing = NoParsing

NextConc ==
    \/ \E c \in Sessions :
          Overlapping(c) /\ FinalizeBegin(c, "L1", "firmA") /\ UNCHANGED helpers
    \/ \E c \in Sessions :
          Overlapping(c) /\ ExportBegin(c, "L1", "firmA") /\ UNCHANGED helpers
    \/ \E c \in Sessions : Convert(c) /\ UNCHANGED helpers
    \/ \E c \in Sessions : Upload(c) /\ UNCHANGED helpers
    \/ \E c \in Sessions : Cleanup(c) /\ UNCHANGED helpers
    \/ \E c \in Sessions : Commit(c) /\ UNCHANGED helpers
    \/ \E c \in Sessions : GetLetter(c) /\ UNCHANGED helpers
    \/ \E c \in Sessions : Presign(c) /\ UNCHANGED helpers
    \/ \E title \in Titles :
          UpdateLetter("L1", "firmA", TRUE, title, FALSE, ContentHeading)
          /\ UNCHANGED helpers

SpecConc == InitConc /\ [][NextConc]_vars

\* the step in which the commit of session c succeeds
Persists(c) == HasOk(call'[c], "Save") /\ ~HasOk(call[c], "Save")

\* a successful delete of the key by one of the calls
DeletedBy(rec, key) ==
    \E i \in 1..Len(rec.log) : rec.log[i] = Entry("Delete", key, TRUE)

\* both calls have ended, both uploaded, under different keys, and the record
\* holds the key of d: c is the other call
OtherOf(c, d) ==
    /\ c # d
    /\ call[c].pc = "done" /\ call[d].pc = "done"
    /\ HasOk(call[c], "Put") /\ HasOk(call[d], "Put")
    /\ call[c].new_s3_key # call[d].new_s3_key
    /\ db["L1"].docx_s3_key = call[d].new_s3_key

\* the file of c is in the bucket, no record points at it, no call deleted it
Orphaned(c) ==
    /\ call[c].new_s3_key \in s3
    /\ db["L1"].docx_s3_key # call[c].new_s3_key
    /\ \A d \in Sessions : ~DeletedBy(call[d], call[c].new_s3_key)

\* C14 as stated: of two overlapping Finalize/Export calls on one letter, the
\* call that persists last leaves its new_key in docx_storage_key, and once
\* both have ended the file the other call uploaded under a different key is
\* in the store, unreferenced, and deleted by neither call.
C14_LastWriterWins ==
    /\ [](\A c, d \in Sessions : OtherOf(c, d) => Orphaned(c))
    /\ [][\A c, d \in Sessions :
             (c # d /\ Persists(c) /\ HasOk(call[d], "Save"))
                 => db'["L1"].docx_s3_key = call[c].new_s3_key]_vars

\* C14: overlapping Finalize/Export calls on one letter are not excluded.  A
\* successful persist writes docx_storage_key only when the call's new_key
\* differs from the key the call loaded, and otherwise leaves the stored key
\* as it is; after both have persisted the key is the new_key of one of the
\* two.  The file the other call uploaded under a different key stays in the
\* store, unreferenced and undeleted, unless its key is the old key the
\* winning call loaded.
C14_LastKeyWriterWins ==
    /\ [](\A c, d \in Sessions :
             (OtherOf(c, d) /\ call[d].old_s3_key # call[c].new_s3_key) => Orphaned(c))
    /\ [](\A c, d \in Sessions :
             (c # d /\ HasOk(call[c], "Save") /\ HasOk(call[d], "Save"))
                 => db["L1"].docx_s3_key \in {call[c].new_s3_key, call[d].new_s3_key})
    /\ [][\A c \in Sessions :
             Persists(c) =>
                 db'["L1"].docx_s3_key =
                     IF call[c].new_s3_key # call[c].old_s3_key
                     THEN call[c].new_s3_key ELSE db["L1"].docx_s3_key]_vars

\* both calls were in flight together, both persisted, and the file of the
\* call that lost is left in the store
C14_Witness ==
    \E c, d \in Sessions :
        /\ OtherOf(c, d) /\ Orphaned(c)
        /\ HasOk(call[c], "Save") /\ HasOk(call[d], "Save")
        /\ call[c].store_before = call[d].store_before
        /\ call[c].old_s3_key = call[d].old_s3_key

(***************************************************************************)
(* generate_filename called on its own                                     *)
(***************************************************************************)
\* the pieces titles are made of: a word, a number with hyphens, blanks, a
\* run of two whitespace characters, characters the pattern strips,
\* underscore and hyphen, and twelve letters that make a title too long when
\* repeated
TitleChunks ==
    { <<"C","a","s","e">>,
      <<"2","0","2","4","-","0","0","1">>,
      <<" ">>,
      <<"\t","\n">>,
      <<"#","!",".">>,
      <<"_","-">>,
      <<"A","A","A","A","A","A","A","A","A","A","A","A">> }

RECURSIVE TitlesOf(_)
TitlesOf(n) ==
    IF n = 0 THEN {<<>>}
    ELSE LET shorter == TitlesOf(n - 1)
         IN  shorter \cup {t \o ch : t \in shorter, ch \in TitleChunks}

\* the datetimes handed over as `date`
Dates == { [year |-> 2024, month |-> 1, day |-> 15],
           [year |-> 1999, month |-> 12, day |-> 31],
           [year |-> 2025, month |-> 10, day |-> 5] }

InitFilename ==
    /\ today = 1
    /\ db = [id \in LetterIds |-> NoLetter]
    /\ s3 = {}
    /\ call = [c \in Sessions |-> IdleCall]
    /\ parsing = NoParsing
    /\ \E letter_title \in TitlesOf(MaxChunks), date \in Dates :
          naming = [pc |-> "called", letter_title |-> letter_title,
                    date |-> date, filename |-> <<>>]

GenerateFilename ==
    /\ naming.pc = "called"
    /\ naming' = [naming EXCEPT
                     !.pc = "returned",
                     !.filename = generate_filename(naming.letter_title, naming.date)]
    /\ UNCHANGED <<service, parsing>>

NextFilename == GenerateFilename

SpecFilename == InitFilename /\ [][NextFilename]_vars

(***************************************************************************)
(* Properties of generate_filename                                         *)
(***************************************************************************)
\* the last n characters of s
Suffix(s, n) == Slice(s, Len(s) - n + 1, Len(s))

\* a name of at most 50 characters that ends in ".docx"
WellFormedName(name) ==
    /\ Len(name) <= 50
    /\ Len(name) >= 5
    /\ Suffix(name, 5) = <<".","d","o","c","x">>

\* C15: whatever the title (empty, long, made of stripped characters only)
\* and the date, generate_filename returns a name of at most 50 characters
\* that ends in ".docx", and it never raises: a call that has not returned
\* yet has such a name to return.
C15_FilenameBounded ==
    /\ naming.pc = "called" =>
          WellFormedName(generate_filename(naming.letter_title, naming.date))
    /\ naming.pc = "returned" => WellFormedName(naming.filename)

\* a title whose sanitized form does not fit has been named
C15_Witness ==
    /\ naming.pc = "returned"
    /\ Len(naming.letter_title) > 30
    /\ Len(SanitizeTitle(naming.letter_title)) > 20
    /\ Len(naming.filename) = 50

\* the title rule of the specification, written position by position: a
\* character is allowed when it is a letter a-z/A-Z, a digit, whitespace,
\* "_" or "-"; of the allowed characters every non-whitespace one is kept
\* and the first character of each whitespace run becomes "_"
Alphanumeric == Lower \cup Upper \cup Digits
Allowed(ch) == ch \in Alphanumeric \/ ch \in Whitespace \/ ch \in {"_", "-"}
SanitizedPerSpec(title) ==
    LET kept == SelectSeq(title, Allowed)
    IN  Flatten([i \in 1..Len(kept) |->
                    IF kept[i] \notin Whitespace THEN <<kept[i]>>
                    ELSE IF i = 1 \/ kept[i - 1] \notin Whitespace THEN <<"_">>
                    ELSE <<>>])

\* YYYY-MM-DD, digit by digit
Digit(n) == CHOOSE ch \in Digits : \E i \in 1..10 : DigitChars[i] = ch /\ i - 1 = n
IsoDate(date) ==
    << Digit(date.year \div 1000), Digit((date.year \div 100) % 10),
       Digit((date.year \div 10) % 10), Digit(date.year % 10), "-",
       Digit(date.month \div 10), Digit(date.month % 10), "-",
       Digit(date.day \div 10), Digit(date.day % 10) >>

NamePerSpec(title, date) ==
    <<"D","e","m","a","n","d","_","L","e","t","t","e","r","_">>
        \o SanitizedPerSpec(title) \o <<"_">> \o IsoDate(date) \o <<".","d","o","c","x">>

\* "Case #2024-001!!" on 2024-01-15
ExampleTitle == <<"C","a","s","e"," ","#","2","0","2","4","-","0","0","1","!","!">>
ExampleName ==
    <<"D","e","m","a","n","d","_","L","e","t","t","e","r","_",
      "C","a","s","e","_","2","0","2","4","-","0","0","1","_",
      "2","0","2","4","-","0","1","-","1","5",".","d","o","c","x">>

\* C16: the sanitized title is the title without the characters that are not
\* alphanumeric, whitespace, "_" or "-", each maximal whitespace run replaced
\* by one "_"; a composed name of at most 50 characters is returned as
\* "Demand_Letter_" + sanitized title + "_" + YYYY-MM-DD + ".docx", and
\* "Case #2024-001!!" on 2024-01-15 gives
\* "Demand_Letter_Case_2024-001_2024-01-15.docx".
C16_SanitizedName ==
    /\ SanitizeTitle(naming.letter_title) = SanitizedPerSpec(naming.letter_title)
    /\ (naming.pc = "returned"
          /\ Len(NamePerSpec(naming.letter_title, naming.date)) <= 50)
         => naming.filename = NamePerSpec(naming.letter_title, naming.date)
    /\ generate_filename(ExampleTitle, [year |-> 2024, month |-> 1, day |-> 15])
         = ExampleName

\* a title with stripped characters and a run of whitespace whose name fits
C16_Witness ==
    /\ naming.pc = "returned"
    /\ \E i \in 1..Len(naming.letter_title) : ~Allowed(naming.letter_title[i])
    /\ \E i \in 2..Len(naming.letter_title) :
          /\ naming.letter_title[i] \in Whitespace
          /\ naming.letter_title[i - 1] \in Whitespace
    /\ Len(naming.filename) < 50
    /\ naming.filename = NamePerSpec(naming.letter_title, naming.date)

(***************************************************************************)
(* An HTMLToDocxParser fed one tag or text node at a time                  *)
(***************************************************************************)
Tags == {"p", "h1", "h2", "h3", "li", "b", "strong", "i", "em", "ul", "ol", "div"}
\* a text node with content, one of whitespace only, and one of two lines
TextNodes == { <<"x">>, <<" ", "\n", " ">>, <<"a", "\n", "b">> }

InitParser ==
    /\ today = 1
    /\ db = [id \in LetterIds |-> NoLetter]
    /\ s3 = {}
    /\ call = [c \in Sessions |-> IdleCall]
    /\ naming = NoNaming
    /\ parsing = NoParsing

\* the tokenizer calls the handler of the next event
Fed(ev) ==
    /\ Len(parsing.fed) < MaxEvents
    /\ parsing' = [fed |-> Append(parsing.fed, ev),
                   parser |-> HandleEvent(parsing.parser, ev)]
    /\ UNCHANGED <<service, naming>>

FeedStartTag == \E tag \in Tags : Fed(StartTag(tag))
FeedEndTag   == \E tag \in Tags : Fed(EndTag(tag))
FeedData     == \E data \in TextNodes : Fed(Text(data))

NextParser == FeedStartTag \/ FeedEndTag \/ FeedData

SpecParser == InitParser /\ [][NextParser]_vars

(***************************************************************************)
(* Properties of the parser                                                *)
(***************************************************************************)
Range(seq) == {seq[i] : i \in 1..Len(seq)}
Top(stack) == stack[Len(stack)]
Front(seq) == SubSeq(seq, 1, Len(seq) - 1)

\* the event handled last and the parser as it was before that event
HasFed == parsing.fed # <<>>
LastEvent == Top(parsing.fed)
ParserBefore == Feed(NewParser, Front(parsing.fed))
LastIsEnd(tags) == HasFed /\ LastEvent.kind = "end" /\ LastEvent.tag \in tags
LastIsStart(tags) == HasFed /\ LastEvent.kind = "start" /\ LastEvent.tag \in tags

Run(text, bold, italic) == [text |-> text, bold |-> bold, italic |-> italic]
Block(style, runs) == [style |-> style, runs |-> runs]

\* <b>A<i>B</i>C</b>
NestedStyles ==
    << StartTag("b"), Text(<<"A">>), StartTag("i"), Text(<<"B">>), EndTag("i"),
       Text(<<"C">>), EndTag("b") >>

\* C17: a run carries the style stack as it is when its text arrives: bold
\* iff "bold" is somewhere in the stack, italic iff "italic" is; the run is
\* appended to the current block (a paragraph opened for it when there is
\* none) and the stacks stay as they are.  <b>A<i>B</i>C</b> gives one
\* paragraph with the runs (A, bold), (B, bold+italic), (C, bold).
C17_RunCarriesStyles ==
    /\ (HasFed /\ LastEvent.kind = "data" /\ NormalizeText(LastEvent.data) # <<>>) =>
          LET b == ParserBefore
              q == parsing.parser
              run == Run(NormalizeText(LastEvent.data),
                         "bold" \in Range(b.formatting_stack),
                         "italic" \in Range(b.formatting_stack))
              at == IF b.current_paragraph = 0 THEN Len(b.doc) + 1 ELSE b.current_paragraph
              blocks == IF b.current_paragraph = 0
                        THEN Append(b.doc, Block("Normal", <<>>)) ELSE b.doc
          IN  /\ q.current_paragraph = at
              /\ q.formatting_stack = b.formatting_stack
              /\ q.list_stack = b.list_stack
              /\ Len(q.doc) = Len(blocks)
              /\ \A k \in 1..Len(blocks) :
                    q.doc[k] = IF k = at
                               THEN Block(blocks[k].style, Append(blocks[k].runs, run))
                               ELSE blocks[k]
    /\ html_to_docx(NestedStyles).paragraphs =
          << Block("Normal", << Run(<<"A">>, TRUE, FALSE), Run(<<"B">>, TRUE, TRUE),
                                Run(<<"C">>, TRUE, FALSE) >>) >>

\* text arrived inside <b><i>
C17_Witness ==
    /\ parsing.fed = <<StartTag("b"), StartTag("em"), Text(<<"x">>)>>
    /\ parsing.parser.doc = <<Block("Normal", <<Run(<<"x">>, TRUE, TRUE)>>)>>

\* what a tag opens or pushes
Kind(tag) ==
    CASE tag \in {"b", "strong"} -> "bold"
      [] tag \in {"i", "em"}     -> "italic"
      [] OTHER                   -> tag
BlockTags == {"p", "h1", "h2", "h3", "li"}
InlineTags == {"b", "strong", "i", "em"}
ListTags == {"ul", "ol"}

\* no start tag of the kind was fed before the last event
NeverOpened(tag) ==
    \A i \in 1..(Len(parsing.fed) - 1) :
        ~(parsing.fed[i].kind = "start" /\ Kind(parsing.fed[i].tag) = Kind(tag))

\* </b>hello
StrayClose == <<EndTag("b"), Text(<<"h","e","l","l","o">>)>>

\* C18 as stated: every recognized end tag (p, h1-h3, li, b/strong, i/em,
\* ul, ol) that has no matching open start tag leaves the current block,
\* the style stack and the list stack unchanged, whatever block is open.
C18_UnmatchedEndIsNoOp ==
    (LastIsEnd(BlockTags \cup InlineTags \cup ListTags) /\ NeverOpened(LastEvent.tag))
        => /\ parsing.parser.current_paragraph = ParserBefore.current_paragraph
           /\ parsing.parser.formatting_stack = ParserBefore.formatting_stack
           /\ parsing.parser.list_stack = ParserBefore.list_stack

\* C18: an end tag b/strong, i/em, ul or ol with no matching open start tag
\* changes nothing (</b>hello gives one unstyled run "hello"); an end tag p,
\* h1-h3 or li sets the current block to none, whichever tag opened the
\* block, and leaves the document and both stacks unchanged.
C18_UnmatchedInlineEndIsNoOp ==
    /\ (LastIsEnd(InlineTags \cup ListTags) /\ NeverOpened(LastEvent.tag))
          => parsing.parser = ParserBefore
    /\ LastIsEnd(BlockTags)
          => parsing.parser = [ParserBefore EXCEPT !.current_paragraph = 0]
    /\ html_to_docx(StrayClose).paragraphs =
          << Block("Normal", <<Run(<<"h","e","l","l","o">>, FALSE, FALSE)>>) >>

\* </strong> arrives in an open paragraph with only italic on the stack
C18_Witness ==
    /\ parsing.fed = <<StartTag("p"), StartTag("i"), EndTag("strong")>>
    /\ parsing.parser.current_paragraph = 1
    /\ parsing.parser.formatting_stack = <<"italic">>

\* <li>x</li>
BareItem == <<StartTag("li"), Text(<<"x">>), EndTag("li")>>

\* C19: <li> opens a plain paragraph when no list is open and otherwise a
\* list item numbered or bulleted after the innermost open list; </ul> and
\* </ol> pop the list stack only when its top is a list of that kind.
C19_ListItemContext ==
    /\ LastIsStart({"li"}) =>
          LET b == ParserBefore
              style == IF b.list_stack = <<>> THEN "Normal"
                       ELSE IF Top(b.list_stack) = "ol" THEN "List Number"
                       ELSE "List Bullet"
          IN  parsing.parser =
                  [b EXCEPT !.doc = Append(b.doc, Block(style, <<>>)),
                            !.current_paragraph = Len(b.doc) + 1]
    /\ LastIsEnd(ListTags) =>
          LET b == ParserBefore
          IN  parsing.parser =
                  [b EXCEPT !.list_stack =
                      IF b.list_stack # <<>> /\ Top(b.list_stack) = LastEvent.tag
                      THEN Front(b.list_stack) ELSE b.list_stack]
    /\ html_to_docx(BareItem).paragraphs = <<Block("Normal", <<Run(<<"x">>, FALSE, FALSE)>>)>>

\* an item of an ordered list nested in an unordered one
C19_Witness ==
    /\ parsing.fed = <<StartTag("ul"), StartTag("ol"), StartTag("li")>>
    /\ parsing.parser.doc = <<Block("List Number", <<>>)>>
    /\ parsing.parser.current_paragraph = 1

\* <b><b>x</b>y</b>
DoubleBold ==
    << StartTag("b"), StartTag("b"), Text(<<"x">>), EndTag("b"), Text(<<"y">>), EndTag("b") >>

\* C20: closing bold (or italic) while the stack holds an entry of that kind
\* removes exactly one entry, the last of that kind, on top or not, and
\* keeps the others in their order; in <b><b>x</b>y</b> y is still bold.
C20_ClosesMostRecent ==
    /\ (LastIsEnd(InlineTags) /\ Kind(LastEvent.tag) \in Range(ParserBefore.formatting_stack)) =>
          LET old == ParserBefore.formatting_stack
              new == parsing.parser.formatting_stack
          IN  \E idx \in 1..Len(old) :
                 /\ old[idx] = Kind(LastEvent.tag)
                 /\ \A j \in (idx + 1)..Len(old) : old[j] # Kind(LastEvent.tag)
                 /\ Len(new) = Len(old) - 1
                 /\ \A j \in 1..Len(new) : new[j] = IF j < idx THEN old[j] ELSE old[j + 1]
    /\ html_to_docx(DoubleBold).paragraphs =
          << Block("Normal", << Run(<<"x">>, TRUE, FALSE), Run(<<"y">>, TRUE, FALSE) >>) >>

\* bold is closed under an open italic
C20_Witness ==
    /\ parsing.fed = <<StartTag("b"), StartTag("i"), EndTag("strong")>>
    /\ parsing.parser.formatting_stack = <<"italic">>

(***************************************************************************)
(* Text nodes                                                              *)
(***************************************************************************)
\* the run the last event appended: the last run of the current paragraph
LastRun ==
    LET block == parsing.parser.doc[parsing.parser.current_paragraph]
    IN  block.runs[Len(block.runs)]

\* the normalization of the specification: the non-empty trimmed lines,
\* one space between consecutive ones, the result trimmed
RECURSIVE JoinWithSpace(_)
JoinWithSpace(lines) ==
    IF lines = <<>> THEN <<>>
    ELSE IF Len(lines) = 1 THEN Head(lines)
    ELSE Head(lines) \o <<" ">> \o JoinWithSpace(Tail(lines))
NormalizedPerSpec(data) ==
    LET trimmed == [i \in 1..Len(SplitLines(data, <<>>)) |-> Strip(SplitLines(data, <<>>)[i])]
    IN  Strip(JoinWithSpace(SelectSeq(trimmed, LAMBDA line : line # <<>>)))

\* C21: the text of a run is the text node split on newlines, each line
\* trimmed, the non-empty lines joined with one space between consecutive
\* lines, and trimmed: "a\nb" gives the run text "a b".
C21_LinesJoinedBySpace ==
    (HasFed /\ LastEvent.kind = "data" /\ NormalizedPerSpec(LastEvent.data) # <<>>)
        => /\ parsing.parser.current_paragraph # 0
           /\ LastRun.text = NormalizedPerSpec(LastEvent.data)

\* the number of runs of a document
RECURSIVE RunCount(_)
RunCount(doc) == IF doc = <<>> THEN 0 ELSE Len(Head(doc).runs) + RunCount(Tail(doc))

\* C22: a text event whose normalized text is not empty appends exactly one
\* run to the current block, after opening a plain paragraph when no block
\* is current; a text event whose normalized text is empty adds no run and
\* opens no block.  No text with content is dropped, whatever tags came
\* before.
C22_TextIsNeverDropped ==
    (HasFed /\ LastEvent.kind = "data") =>
        LET b == ParserBefore
            q == parsing.parser
        IN  IF NormalizedPerSpec(LastEvent.data) = <<>> THEN q = b
            ELSE /\ RunCount(q.doc) = RunCount(b.doc) + 1
                 /\ q.current_paragraph # 0
                 /\ LastRun.text # <<>>
                 /\ IF b.current_paragraph # 0
                    THEN /\ q.current_paragraph = b.current_paragraph
                         /\ Len(q.doc) = Len(b.doc)
                         /\ Len(q.doc[q.current_paragraph].runs)
                              = Len(b.doc[b.current_paragraph].runs) + 1
                    ELSE /\ q.current_paragraph = Len(b.doc) + 1
                         /\ Len(q.doc) = Len(b.doc) + 1
                         /\ q.doc[Len(q.doc)].style = "Normal"
                         /\ Len(q.doc[Len(q.doc)].runs) = 1

\* text after a closed paragraph went to a paragraph opened for it
C22_Witness ==
    /\ parsing.fed = <<StartTag("p"), EndTag("p"), Text(<<"x">>)>>
    /\ parsing.parser.doc =
          <<Block("Normal", <<>>), Block("Normal", <<Run(<<"x">>, FALSE, FALSE)>>)>>
    /\ parsing.parser.current_paragraph = 2

(***************************************************************************)
(* Totality                                                                *)
(***************************************************************************)
Recognized == BlockTags \cup InlineTags \cup ListTags
Styles == {"Normal", "Heading 1", "Heading 2", "Heading 3", "List Bullet", "List Number"}

\* a document model: blocks of known styles with runs of non-empty text,
\* the current block none or one of them, stacks of known entries
ValidModel(ps) ==
    /\ ps.current_paragraph \in 0..Len(ps.doc)
    /\ \A k \in 1..Len(ps.doc) :
          /\ ps.doc[k].style \in Styles
          /\ \A r \in 1..Len(ps.doc[k].runs) :
                /\ ps.doc[k].runs[r].text # <<>>
                /\ ps.doc[k].runs[r].bold \in BOOLEAN
                /\ ps.doc[k].runs[r].italic \in BOOLEAN
    /\ Range(ps.formatting_stack) \subseteq {"bold", "italic"}
    /\ Range(ps.list_stack) \subseteq {"ul", "ol"}

\* C23: whatever start tags, end tags and text nodes are fed, recognized or
\* not, balanced or not, the parser ends in a valid document model (empty
\* for no events at all), and a start or end tag outside the recognized set
\* leaves the current block, the style stack and the list stack unchanged.
C23_BuilderIsTotal ==
    /\ ValidModel(parsing.parser)
    /\ parsing.parser = Feed(NewParser, parsing.fed)
    /\ (HasFed /\ LastEvent.kind # "data" /\ LastEvent.tag \notin Recognized)
          => parsing.parser = ParserBefore
    /\ html_to_docx(<<>>).paragraphs = <<>>

\* an unknown element inside an open paragraph
C23_Witness ==
    /\ parsing.fed = <<StartTag("p"), StartTag("div"), EndTag("div")>>
    /\ parsing.parser = [NewParser EXCEPT !.doc = <<Block("Normal", <<>>)>>,
                                           !.current_paragraph = 1]

(***************************************************************************)
(* Formatting across blocks                                                *)
(***************************************************************************)
\* <p><b>a</p><p>b</p>
BoldAcrossParagraphs ==
    << StartTag("p"), StartTag("b"), Text(<<"a">>), EndTag("p"),
       StartTag("p"), Text(<<"b">>), EndTag("p") >>

\* C30: the start and end tags of p, h1-h3 and li leave the style stack and
\* the list stack as they are; bold or italic opened in one block and not
\* closed there applies to the runs of the later blocks until it is closed.
C30_BlocksKeepStacks ==
    /\ (LastIsStart(BlockTags) \/ LastIsEnd(BlockTags)) =>
          /\ parsing.parser.formatting_stack = ParserBefore.formatting_stack
          /\ parsing.parser.list_stack = ParserBefore.list_stack
    /\ html_to_docx(BoldAcrossParagraphs).paragraphs =
          << Block("Normal", <<Run(<<"a">>, TRUE, FALSE)>>),
             Block("Normal", <<Run(<<"b">>, TRUE, FALSE)>>) >>

\* a heading opened under an open <strong>, inside a list
C30_Witness ==
    /\ parsing.fed = <<StartTag("strong"), StartTag("ol"), StartTag("h2")>>
    /\ parsing.parser.formatting_stack = <<"bold">>
    /\ parsing.parser.list_stack = <<"ol">>
    /\ parsing.parser.doc = <<Block("Heading 2", <<>>)>>

(***************************************************************************)
(* Truncation of the file name                                             *)
(***************************************************************************)
\* the first n characters of s
FirstChars(s, n) == [i \in 1..(IF Len(s) < n THEN Len(s) ELSE n) |-> s[i]]

\* C24: when the composed name would have more than 50 characters, the
\* sanitized title is cut to its first 50 - 14 - 10 - 1 - 5 = 20 characters
\* and the name is "Demand_Letter_" + cut title + "_" + date + ".docx", of
\* exactly 50 characters, with prefix, date and extension whole.
C24_TitleTruncatedTo20 ==
    /\ max_title_length = 50 - 14 - 10 - 1 - 5
    /\ max_title_length = 20
    /\ (naming.pc = "returned"
          /\ Len(NamePerSpec(naming.letter_title, naming.date)) > 50) =>
          /\ naming.filename =
                <<"D","e","m","a","n","d","_","L","e","t","t","e","r","_">>
                    \o FirstChars(SanitizedPerSpec(naming.letter_title), 20)
                    \o <<"_">> \o IsoDate(naming.date) \o <<".","d","o","c","x">>
          /\ Len(naming.filename) = 50

\* a title of 36 letters named on 1999-12-31
C24_Witness ==
    /\ naming.pc = "returned"
    /\ naming.letter_title = [i \in 1..36 |-> "A"]
    /\ naming.date = [year |-> 1999, month |-> 12, day |-> 31]
    /\ naming.filename =
          <<"D","e","m","a","n","d","_","L","e","t","t","e","r","_">>
              \o [i \in 1..20 |-> "A"]
              \o <<"_","1","9","9","9","-","1","2","-","3","1",".","d","o","c","x">>

(***************************************************************************)
(* The stored key and the files in the bucket                              *)
(***************************************************************************)
\* the key of the row, when there is one, names a file of the bucket
KeyResolves(letter, bucket) ==
    letter.docx_s3_key = NoKey \/ letter.docx_s3_key \in bucket

\* C26: during one Finalize or Export call, and in the state it leaves when
\* it stops at any step (a failed commit included), a stored docx_s3_key
\* names a file that exists in the bucket, if it did when the call started.
C26_KeyResolvesDuringCall ==
    \A c \in Sessions :
        LET rec == call[c]
        IN  (rec.op # "none" /\ rec.before # NoLetter
               /\ KeyResolves(rec.before, rec.store_before))
                => KeyResolves(db[rec.letter_id], s3)

\* C27: after overlapping Finalize/Export calls and title updates on one
\* letter, once every call has completed (here: returned without error),
\* a stored docx_s3_key names a file that exists in the bucket: the calls
\* may leave files nobody points at, never a key whose file was deleted.
C27_KeyResolvesAfterRace ==
    (\A c \in Sessions : call[c].pc = "done" /\ call[c].result = "ok")
        => KeyResolves(db["L1"], s3)

(***************************************************************************)
(* Status and key; keys and tenants                                        *)
(***************************************************************************)
\* C28: starting from letters generated as draft without a key, after any
\* updates, Finalize and Export calls, failed ones included, a letter whose
\* status is created has a docx_s3_key (a draft letter may have one too,
\* after an Export).
C28_CreatedHasKey ==
    \A id \in LetterIds :
        (db[id] # NoLetter /\ db[id].status = "created") => db[id].docx_s3_key # NoKey

\* a draft that already had a key from an Export has been finalized
C28_Witness ==
    LET rec == call["s1"]
    IN  /\ rec.op = "finalize" /\ Succeeded(rec)
        /\ rec.before.status = "draft"
        /\ rec.before.docx_s3_key # NoKey
        /\ db["L1"].status = "created"
        /\ db["L1"].docx_s3_key = rec.new_s3_key

\* the two calls on the bucket and the key each was given
StoreCalls(rec) == SelectSeq(rec.log, LAMBDA e : e.op \in {"Put", "Delete"})

\* C29: every key Finalize or Export hands to an upload or a delete starts
\* with "{firm_id}/letters/" for the firm that owns the letter, so the calls
\* of one firm never write or delete under another firm's prefix.
C29_KeysUnderOwnPrefix ==
    \A c \in Sessions :
        LET rec == call[c]
        IN  \A i \in 1..Len(StoreCalls(rec)) :
               /\ rec.before # NoLetter
               /\ Len(StoreCalls(rec)[i].key) = 3
               /\ StoreCalls(rec)[i].key[1] = rec.before.firm_id
               /\ StoreCalls(rec)[i].key[1] = rec.firm_id
               /\ StoreCalls(rec)[i].key[2] = "letters"

\* an upload and a delete of one call, both under the owner's prefix
C29_Witness ==
    LET rec == call["s1"]
    IN  /\ HasOk(rec, "Put") /\ HasOk(rec, "Delete")
        /\ rec.firm_id = "firmA"
        /\ rec.old_s3_key[1] = "firmA" /\ rec.new_s3_key[1] = "firmA"
        /\ rec.old_s3_key # rec.new_s3_key

(***************************************************************************)
(* Two letters of one firm with the same title, and delete_letter          *)
(***************************************************************************)
\* delete_letter: the file is deleted first, then the row; a failed delete
\* of the file stops the handler, a failed commit comes after the file is
\* gone
DeleteLetter(c, letter_id, firm_id) ==
    /\ call[c].pc = "idle"
    /\ LET letter == db[letter_id]
           rec == [IdleCall EXCEPT !.op = "delete", !.letter_id = letter_id,
                                   !.firm_id = firm_id, !.before = letter,
                                   !.store_before = s3]
           gone == IF letter.docx_s3_key = NoKey THEN rec
                   ELSE Logged(rec, Entry("Delete", letter.docx_s3_key, TRUE))
       IN  IF letter = NoLetter
           THEN call' = [call EXCEPT ![c] = Raised(rec, "NotFound")] /\ UNCHANGED <<db, s3>>
           ELSE IF ~OwnedBy(letter, firm_id)
           THEN call' = [call EXCEPT ![c] = Raised(rec, "Forbidden")] /\ UNCHANGED <<db, s3>>
           ELSE \/ /\ letter.docx_s3_key # NoKey
                   /\ call' = [call EXCEPT ![c] =
                          Raised(Logged(rec, Entry("Delete", letter.docx_s3_key, FALSE)),
                                 "ArtifactStoreFailed")]
                   /\ UNCHANGED <<db, s3>>
                \/ /\ s3' = IF letter.docx_s3_key = NoKey THEN s3
                             ELSE S3Delete(s3, letter.docx_s3_key)
                   /\ \/ /\ db' = [db EXCEPT ![letter_id] = NoLetter]
                         /\ call' = [call EXCEPT ![c] =
                                [Logged(gone, Entry("Save", NoKey, TRUE)) EXCEPT
                                    !.pc = "done", !.result = "ok"]]
                      \/ /\ call' = [call EXCEPT ![c] =
                                Raised(Logged(gone, Entry("Save", NoKey, FALSE)),
                                       "PersistenceError")]
                         /\ UNCHANGED db
    /\ UNCHANGED today

InitTwo ==
    /\ today = 1
    /\ db = [id \in LetterIds |-> NewLetter("firmA", TitleCase, ContentHeading, 1)]
    /\ s3 = {}
    /\ call = [c \in Sessions |-> IdleCall]
    /\ naming = NoNaming
    /\ parsing = NoParsing

NextTwo ==
    \/ \E id \in LetterIds : FinalizeBegin("s1", id, "firmA") /\ UNCHANGED helpers
    \/ \E id \in LetterIds : ExportBegin("s1", id, "firmA") /\ UNCHANGED helpers
    \/ \E id \in LetterIds : DeleteLetter("s1", id, "firmA") /\ UNCHANGED helpers
    \/ Convert("s1") /\ UNCHANGED helpers
    \/ Upload("s1") /\ UNCHANGED helpers
    \/ Cleanup("s1") /\ UNCHANGED helpers
    \/ Commit("s1") /\ UNCHANGED helpers
    \/ GetLetter("s1") /\ UNCHANGED helpers
    \/ Presign("s1") /\ UNCHANGED helpers
    \/ Return("s1") /\ UNCHANGED helpers
    \/ \E id \in LetterIds, title \in Titles :
          Idle /\ UpdateLetter(id, "firmA", TRUE, title, FALSE, ContentHeading)
               /\ UNCHANGED helpers

SpecTwo == InitTwo /\ [][NextTwo]_vars

\* the keys a call has uploaded to or deleted
TouchedKeys(rec) ==
    {rec.log[i].key : i \in {j \in 1..Len(rec.log) :
                                rec.log[j].op \in {"Put", "Delete"} /\ rec.log[j].ok}}

\* C25: keys of different letters never collide: a Finalize, Export or
\* delete of one letter never uploads over or deletes the file that another
\* letter of the same firm points at, also when both letters have the same
\* title and the same updated_at date.
C25_KeysNeverCollide ==
    \A c \in Sessions :
        LET rec == call[c]
        IN  \A other \in LetterIds \ {rec.letter_id} :
               (rec.op # "none" /\ db[other] # NoLetter)
                   => db[other].docx_s3_key \notin TouchedKeys(rec)
====
